---- MODULE Spec2Model ----
(***************************************************************************)
(* Model of the markproc Markdown preprocessor (src/main.go, lines 1-251). *)
(*                                                                         *)
(* A text line is a sequence of one-character strings.  The regular        *)
(* expressions of the program are operators over such sequences that       *)
(* follow Go's leftmost-first matching; the library calls (strings.Replace,*)
(* strings.ToLower, strings.TrimSuffix, strings.Join, Sprintf("%d")) are   *)
(* operators that compute what the calls compute.                          *)
(***************************************************************************)
EXTENDS Integers, Sequences, FiniteSets, TLC

\* ------------------------------------------------------------------------
\* Characters and strings
\* ------------------------------------------------------------------------

DigitSeq == <<"0", "1", "2", "3", "4", "5", "6", "7", "8", "9">>

LowerSeq ==
    <<"a", "b", "c", "d", "e", "f", "g", "h", "i", "j", "k", "l", "m",
      "n", "o", "p", "q", "r", "s", "t", "u", "v", "w", "x", "y", "z">>

UpperSeq ==
    <<"A", "B", "C", "D", "E", "F", "G", "H", "I", "J", "K", "L", "M",
      "N", "O", "P", "Q", "R", "S", "T", "U", "V", "W", "X", "Y", "Z">>

Range(f) == {f[x] : x \in DOMAIN f}

\* \d of the regular expressions
DigitChars == Range(DigitSeq)

\* \w of the regular expressions: [0-9A-Za-z_]
WordChars == Range(LowerSeq) \cup Range(UpperSeq) \cup DigitChars \cup {"_"}

\* \s of the regular expressions: [\t\n\f\r ]
SpaceChars == {" ", "\t", "\n", "\f", "\r"}

\* [\d\.] of numberedHeaderRe
NumberChars == DigitChars \cup {"."}

\* strings.ToLower, one character
ToLowerChar(c) ==
    IF \E k \in DOMAIN UpperSeq : UpperSeq[k] = c
    THEN LowerSeq[CHOOSE k \in DOMAIN UpperSeq : UpperSeq[k] = c]
    ELSE c

\* strings.ToLower
ToLower(s) == [k \in 1..Len(s) |-> ToLowerChar(s[k])]

\* fmt.Sprintf("%d", n) for n >= 0
RECURSIVE Itoa(_)
Itoa(n) ==
    IF n < 10 THEN <<DigitSeq[n + 1]>>
    ELSE Itoa(n \div 10) \o <<DigitSeq[(n % 10) + 1]>>

\* strings.Join(parts, sep)
RECURSIVE Join(_, _)
Join(parts, sep) ==
    IF Len(parts) = 0 THEN <<>>
    ELSE IF Len(parts) = 1 THEN parts[1]
    ELSE parts[1] \o sep \o Join(Tail(parts), sep)

\* strings.HasPrefix(s[i-1:], p), positions counted from 1
HasPrefixAt(s, i, p) ==
    /\ i + Len(p) - 1 <= Len(s)
    /\ \A k \in 1..Len(p) : s[i + k - 1] = p[k]

\* strings.TrimSuffix(s, suffix)
TrimSuffix(s, suffix) ==
    IF Len(s) >= Len(suffix) /\ HasPrefixAt(s, Len(s) - Len(suffix) + 1, suffix)
    THEN SubSeq(s, 1, Len(s) - Len(suffix))
    ELSE s

\* strings.Replace(s, old, new, -1) from position i on, old not empty:
\* the occurrences of old are replaced left to right without overlap
RECURSIVE ReplaceFrom(_, _, _, _)
ReplaceFrom(s, i, old, new) ==
    IF i > Len(s) THEN <<>>
    ELSE IF HasPrefixAt(s, i, old)
         THEN new \o ReplaceFrom(s, i + Len(old), old, new)
         ELSE <<s[i]>> \o ReplaceFrom(s, i + 1, old, new)

ReplaceAll(s, old, new) == ReplaceFrom(s, 1, old, new)

\* a greedy character class: the first position >= i of s whose character is
\* not in class (Len(s) + 1 when the run reaches the end of s)
RECURSIVE RunEnd(_, _, _)
RunEnd(s, i, class) ==
    IF i > Len(s) \/ s[i] \notin class THEN i
    ELSE RunEnd(s, i + 1, class)

\* a greedy negated class [^c]: the first position >= i of s holding c
RECURSIVE FindChar(_, _, _)
FindChar(s, i, c) ==
    IF i > Len(s) \/ s[i] = c THEN i
    ELSE FindChar(s, i + 1, c)

\* ------------------------------------------------------------------------
\* Markup the program emits and looks for
\* ------------------------------------------------------------------------

AnchorOpen == <<"<", "a", " ", "n", "a", "m", "e", "=", "\"">>
AnchorClose == <<"\"", ">", "<", "/", "a", ">">>
HrefOpen == <<"<", "a", " ", "h", "r", "e", "f", "=", "\"", "#">>
HrefMid == <<"\"", ">">>
HrefClose == <<"<", "/", "a", ">">>
SecWord == <<"s", "e", "c">>

\* fmt.Sprintf(`<a name="%s"></a>`, name)
AnchorLine(name) == AnchorOpen \o name \o AnchorClose

\* fmt.Sprintf(`<a href="#%s">%s</a>`, dest, text)
HrefLink(dest, text) == HrefOpen \o dest \o HrefMid \o text \o HrefClose

\* fmt.Sprintf("[%s]", s)
Bracket(s) == <<"[">> \o s \o <<"]">>

\* ------------------------------------------------------------------------
\* The regular expressions (src/main.go:23-27 and the two of verify)
\* ------------------------------------------------------------------------

NoMatch == [ok |-> FALSE]

\* refRegexp.FindAllStringSubmatch(s, -1), the submatches [1] in order:
\* \[(\w+)\][^:]   The match consumes the character after the bracket.
RECURSIVE refRegexp(_, _)
refRegexp(s, i) ==
    IF i > Len(s) THEN <<>>
    ELSE LET j == RunEnd(s, i + 1, WordChars)
         IN  IF /\ s[i] = "["
                /\ j > i + 1
                /\ j + 1 <= Len(s)
                /\ s[j] = "]"
                /\ s[j + 1] # ":"
             THEN <<SubSeq(s, i + 1, j - 1)>> \o refRegexp(s, j + 2)
             ELSE refRegexp(s, i + 1)

\* extLinkRegexp.FindStringSubmatch(s):  ^\[(\w+)\]:\s+
extLinkRegexp(s) ==
    LET j == RunEnd(s, 2, WordChars)
    IN  IF /\ Len(s) >= 1
           /\ s[1] = "["
           /\ j > 2
           /\ j + 2 <= Len(s)
           /\ s[j] = "]"
           /\ s[j + 1] = ":"
           /\ s[j + 2] \in SpaceChars
        THEN [ok |-> TRUE, ref |-> SubSeq(s, 2, j - 1)]
        ELSE NoMatch

\* headerRegexp.FindStringSubmatch(s):  ^(#+)\s+(.+)
\* \s+ is greedy and gives its last character back to (.+) when the line
\* ends with the run of white space.
headerRegexp(s) ==
    LET h == RunEnd(s, 1, {"#"})
        w == RunEnd(s, h, SpaceChars)
    IN  IF h > 1 /\ w > h /\ w <= Len(s)
        THEN [ok |-> TRUE, hashes |-> SubSeq(s, 1, h - 1),
              title |-> SubSeq(s, w, Len(s))]
        ELSE IF h > 1 /\ w > h + 1
        THEN [ok |-> TRUE, hashes |-> SubSeq(s, 1, h - 1),
              title |-> SubSeq(s, Len(s), Len(s))]
        ELSE NoMatch

\* numberedHeaderRe.FindStringSubmatch(s):  ^(#+)\s+([\d\.]+)\s+(.+)
numberedHeaderRe(s) ==
    LET h == RunEnd(s, 1, {"#"})
        w == RunEnd(s, h, SpaceChars)
        n == RunEnd(s, w, NumberChars)
        v == RunEnd(s, n, SpaceChars)
    IN  IF h > 1 /\ w > h /\ n > w /\ v > n /\ v <= Len(s)
        THEN [ok |-> TRUE, hashes |-> SubSeq(s, 1, h - 1),
              number |-> SubSeq(s, w, n - 1), text |-> SubSeq(s, v, Len(s))]
        ELSE IF h > 1 /\ w > h /\ n > w /\ v > n + 1
        THEN [ok |-> TRUE, hashes |-> SubSeq(s, 1, h - 1),
              number |-> SubSeq(s, w, n - 1),
              text |-> SubSeq(s, Len(s), Len(s))]
        ELSE NoMatch

\* sectionRefRegexp.FindAllStringSubmatch(s, -1), every match in order with
\* its text (match[0]) and its submatch (match[1]):  \[sec\s+([^\]]+)\]
\* \s+ takes the whole run of white space, and gives its last character
\* back to the class when the closing bracket follows the run directly.
RECURSIVE sectionRefRegexp(_, _)
sectionRefRegexp(s, i) ==
    IF i > Len(s) THEN <<>>
    ELSE LET p == i + 1 + Len(SecWord)
             w == RunEnd(s, p, SpaceChars)
             a == IF w <= Len(s) /\ s[w] = "]" THEN w - 1 ELSE w
             e == FindChar(s, a + 1, "]")
         IN  IF /\ HasPrefixAt(s, i, <<"[">> \o SecWord)
                /\ w > p
                /\ a > p
                /\ e <= Len(s)
             THEN <<[whole |-> SubSeq(s, i, e), acronym |-> SubSeq(s, a, e - 1)]>>
                      \o sectionRefRegexp(s, e + 1)
             ELSE sectionRefRegexp(s, i + 1)

\* regexp `<a name="([^"]+)"></a>`, FindStringSubmatch: the leftmost match
\* of the line only
RECURSIVE anchorRegexp(_, _)
anchorRegexp(s, i) ==
    IF i > Len(s) THEN NoMatch
    ELSE LET a == i + Len(AnchorOpen)
             e == FindChar(s, a, "\"")
         IN  IF /\ HasPrefixAt(s, i, AnchorOpen)
                /\ e > a
                /\ HasPrefixAt(s, e, AnchorClose)
             THEN [ok |-> TRUE, name |-> SubSeq(s, a, e - 1), end |-> e + Len(AnchorClose)]
             ELSE anchorRegexp(s, i + 1)

\* regexp `<a href="#([^"]+)">`, FindStringSubmatch: the leftmost match of
\* the line only
RECURSIVE hrefRegexp(_, _)
hrefRegexp(s, i) ==
    IF i > Len(s) THEN NoMatch
    ELSE LET a == i + Len(HrefOpen)
             e == FindChar(s, a, "\"")
         IN  IF /\ HasPrefixAt(s, i, HrefOpen)
                /\ e > a
                /\ HasPrefixAt(s, e, HrefMid)
             THEN [ok |-> TRUE, name |-> SubSeq(s, a, e - 1), end |-> e + Len(HrefMid)]
             ELSE hrefRegexp(s, i + 1)

\* ------------------------------------------------------------------------
\* The passes
\* ------------------------------------------------------------------------

\* passMkExterns with lines 98 and 100 exchanged: the anchor line follows
\* the target-definition line
RECURSIVE passMkExternsAnchorAfter(_)
passMkExternsAnchorAfter(ls) ==
    IF Len(ls) = 0 THEN <<>>
    ELSE LET line == Head(ls)
             extMatch == extLinkRegexp(line)
         IN  <<line>>
                 \o (IF extMatch.ok THEN <<AnchorLine(extMatch.ref)>> ELSE <<>>)
                 \o passMkExternsAnchorAfter(Tail(ls))

\* passMkExterns: an anchor line before every target-definition line
RECURSIVE passMkExterns(_)
passMkExterns(ls) ==
    IF Len(ls) = 0 THEN <<>>
    ELSE LET line == Head(ls)
             extMatch == extLinkRegexp(line)
         IN  (IF extMatch.ok THEN <<AnchorLine(extMatch.ref)>> ELSE <<>>)
                 \o <<line>> \o passMkExterns(Tail(ls))

\* the slice sectionNumbers grown with zeros to length level (lines 121-123)
RECURSIVE ExtendNumbers(_, _)
ExtendNumbers(sectionNumbers, level) ==
    IF Len(sectionNumbers) < level
    THEN ExtendNumbers(Append(sectionNumbers, 0), level)
    ELSE sectionNumbers

\* lines 129-131 left out: no count is set to zero
ResetDeeperNever(sectionNumbers, level) == sectionNumbers

\* lines 129-131 with the loop started at level + 1: the count of the next
\* deeper level is kept
ResetDeeperLate(sectionNumbers, level) ==
    [k \in 1..Len(sectionNumbers) |->
        IF k > level + 1 THEN 0 ELSE sectionNumbers[k]]

\* the counts of the deeper levels set to zero (lines 129-131)
ResetDeeper(sectionNumbers, level) ==
    [k \in 1..Len(sectionNumbers) |->
        IF k > level THEN 0 ELSE sectionNumbers[k]]

\* lines 134-138 with the counts that are zero left out of the parts
SectionNumberCollapsed(sectionNumbers, level) ==
    LET RECURSIVE Parts(_)
        Parts(k) ==
            IF k > level THEN <<>>
            ELSE (IF sectionNumbers[k] = 0 THEN <<>>
                  ELSE <<Itoa(sectionNumbers[k])>>) \o Parts(k + 1)
    IN  Join(Parts(1), <<".">>)

\* the section number string (lines 134-138)
SectionNumber(sectionNumbers, level) ==
    Join([k \in 1..level |-> Itoa(sectionNumbers[k])], <<".">>)

\* "sec" + the number as it is, dots kept
HeaderLinkDotted(sectionNumber) ==
    SecWord \o sectionNumber

\* "sec" + the number with its dots taken out
HeaderLinkDotless(sectionNumber) ==
    SecWord \o ReplaceAll(sectionNumber, <<".">>, <<>>)

\* "sec" + the number with its dots replaced by underscores (line 141)
HeaderLink(sectionNumber) ==
    SecWord \o ReplaceAll(sectionNumber, <<".">>, <<"_">>)

\* one iteration of the loop of passMkHeads (lines 110-150) on line, from
\* the loop state st = [newLines, sectionNumbers, prevLevel, warnings, issued]
MkHeadsBody(st, line) ==
    LET headerMatch == headerRegexp(line)
    IN  IF headerMatch.ok
        THEN LET level == Len(headerMatch.hashes)
                 title == headerMatch.title
                 extended == ExtendNumbers(st.sectionNumbers, level)
                 counted == [extended EXCEPT ![level] = @ + 1]
                 numbers == ResetDeeper(counted, level)
                 sectionNumber == SectionNumber(numbers, level)
                 newLine == headerMatch.hashes \o <<" ">> \o sectionNumber
                                \o <<".", " ">> \o title
             IN  [newLines |-> st.newLines
                                 \o <<AnchorLine(HeaderLink(sectionNumber)), newLine>>,
                  sectionNumbers |-> numbers,
                  prevLevel |-> level,
                  warnings |-> IF level - st.prevLevel > 1
                               THEN st.warnings + 1 ELSE st.warnings,
                  issued |-> Append(st.issued, sectionNumber)]
        ELSE [st EXCEPT !.newLines = Append(@, line)]

\* passLinkExterns on one line: every submatch of refRegexp is replaced,
\* wherever "[ref]" occurs in the line as rewritten so far (lines 76-85)
RECURSIVE LinkExternsLine(_, _)
LinkExternsLine(line, refMatch) ==
    IF Len(refMatch) = 0 THEN line
    ELSE LET ref == Head(refMatch)
             link == HrefLink(ref, ref)
         IN  LinkExternsLine(ReplaceAll(line, Bracket(ref), Bracket(link)),
                             Tail(refMatch))

\* passLinkExterns
passLinkExterns(ls) ==
    [k \in 1..Len(ls) |-> LinkExternsLine(ls[k], refRegexp(ls[k], 1))]

\* the first loop of passLinkHeads (lines 158-168): the map sectionTargets,
\* keyed by the lower-cased heading text; a later heading with the same key
\* overwrites the earlier one
RECURSIVE SectionTargets(_, _)
SectionTargets(ls, m) ==
    IF Len(ls) = 0 THEN m
    ELSE LET headerMatch == numberedHeaderRe(Head(ls))
         IN  IF headerMatch.ok
             THEN LET number == TrimSuffix(headerMatch.number, <<".">>)
                      text == headerMatch.text
                      lowerText == ToLower(text)
                      name == SecWord \o ReplaceAll(number, <<".">>, <<"_">>)
                      target == [Name |-> name, Heading |-> text,
                                 Number |-> number, HeadingLower |-> lowerText]
                  IN  SectionTargets(Tail(ls),
                        [k \in DOMAIN m \cup {lowerText} |->
                            IF k = lowerText THEN target ELSE m[k]])
             ELSE SectionTargets(Tail(ls), m)

\* q is a subsequence of c
RECURSIVE IsSubsequence(_, _)
IsSubsequence(q, c) ==
    IF Len(q) = 0 THEN TRUE
    ELSE IF Len(c) = 0 THEN FALSE
    ELSE IF Head(q) = Head(c) THEN IsSubsequence(Tail(q), Tail(c))
    ELSE IsSubsequence(q, Tail(c))

\* fuzzy.Match(query, candidates) filtered to Insertions > 0,
\* Substitutions = 0, Deletions = 0 (lines 175-181): the candidates that
\* the query becomes by insertions alone, at least one of them
InsertionOnly(query, candidates) ==
    {c \in candidates : Len(c) > Len(query) /\ IsSubsequence(query, c)}

\* the loop over the section references of one line with a reference that
\* has no acceptable match linked to the zero value of HeaderTarget
RECURSIVE LinkHeadsLineLinksZero(_, _, _)
LinkHeadsLineLinksZero(st, secRefMatches, sectionTargets) ==
    IF Len(secRefMatches) = 0 THEN st
    ELSE LET acronym == Head(secRefMatches).acronym
             lowerAcronym == ToLower(acronym)
             insertionOnly == InsertionOnly(lowerAcronym, DOMAIN sectionTargets)
             target == IF Cardinality(insertionOnly) = 1
                       THEN sectionTargets[CHOOSE c \in insertionOnly : TRUE]
                       ELSE [Name |-> <<>>, Number |-> <<>>]
             anchorLink == HrefLink(target.Name, SecWord \o <<" ">> \o target.Number)
             oldStr == Bracket(SecWord \o <<" ">> \o acronym)
             newStr == Bracket(anchorLink)
             next ==
                 IF Cardinality(insertionOnly) <= 1
                 THEN [st EXCEPT !.line = ReplaceAll(@, oldStr, newStr),
                                 !.exitCode = IF Cardinality(insertionOnly) = 0
                                              THEN 1 ELSE @]
                 ELSE [st EXCEPT !.exitCode = 1]
         IN  LinkHeadsLineLinksZero(next, Tail(secRefMatches), sectionTargets)

\* the loop over the section references of one line with the exit code left
\* alone when a reference has no acceptable match, as with a warning only
RECURSIVE LinkHeadsLineWarnsOnly(_, _, _)
LinkHeadsLineWarnsOnly(st, secRefMatches, sectionTargets) ==
    IF Len(secRefMatches) = 0 THEN st
    ELSE LET acronym == Head(secRefMatches).acronym
             lowerAcronym == ToLower(acronym)
             insertionOnly == InsertionOnly(lowerAcronym, DOMAIN sectionTargets)
             next ==
                 IF Cardinality(insertionOnly) = 1
                 THEN LET target == sectionTargets[CHOOSE c \in insertionOnly : TRUE]
                          anchorLink == HrefLink(target.Name, SecWord \o <<" ">> \o target.Number)
                          oldStr == Bracket(SecWord \o <<" ">> \o acronym)
                          newStr == Bracket(anchorLink)
                      IN  [st EXCEPT !.line = ReplaceAll(@, oldStr, newStr)]
                 ELSE IF Cardinality(insertionOnly) = 0 THEN st
                 ELSE [st EXCEPT !.exitCode = 1]
         IN  LinkHeadsLineWarnsOnly(next, Tail(secRefMatches), sectionTargets)

\* the loop over the section references of one line (lines 172-200), from
\* st = [line, exitCode]
RECURSIVE LinkHeadsLine(_, _, _)
LinkHeadsLine(st, secRefMatches, sectionTargets) ==
    IF Len(secRefMatches) = 0 THEN st
    ELSE LET acronym == Head(secRefMatches).acronym
             lowerAcronym == ToLower(acronym)
             insertionOnly == InsertionOnly(lowerAcronym, DOMAIN sectionTargets)
             next ==
                 IF Cardinality(insertionOnly) = 1
                 THEN LET target == sectionTargets[CHOOSE c \in insertionOnly : TRUE]
                          anchorLink == HrefLink(target.Name, SecWord \o <<" ">> \o target.Number)
                          oldStr == Bracket(SecWord \o <<" ">> \o acronym)
                          newStr == Bracket(anchorLink)
                      IN  [st EXCEPT !.line = ReplaceAll(@, oldStr, newStr)]
                 ELSE [st EXCEPT !.exitCode = 1]
         IN  LinkHeadsLine(next, Tail(secRefMatches), sectionTargets)

\* the second loop of passLinkHeads (lines 170-203), from exit code ec
RECURSIVE LinkHeadsLines(_, _, _)
LinkHeadsLines(ls, ec, sectionTargets) ==
    IF Len(ls) = 0 THEN [lines |-> <<>>, exitCode |-> ec]
    ELSE LET one == LinkHeadsLine([line |-> Head(ls), exitCode |-> ec],
                                  sectionRefRegexp(Head(ls), 1), sectionTargets)
             rest == LinkHeadsLines(Tail(ls), one.exitCode, sectionTargets)
         IN  [lines |-> <<one.line>> \o rest.lines, exitCode |-> rest.exitCode]

\* passLinkHeads: the new lines and the value of the global exitCode
passLinkHeads(ls, ec) ==
    LinkHeadsLines(ls, ec, SectionTargets(ls, <<>>))

\* the anchor scan of verify (lines 213-224) from line i on, seen being
\* duplicateChecker: the name of the first anchor met twice, or the names
RECURSIVE AnchorScan(_, _, _)
AnchorScan(ls, i, seen) ==
    IF i > Len(ls) THEN [dup |-> FALSE, names |-> seen]
    ELSE LET nameMatch == anchorRegexp(ls[i], 1)
         IN  IF ~nameMatch.ok THEN AnchorScan(ls, i + 1, seen)
             ELSE IF nameMatch.name \in seen
             THEN [dup |-> TRUE, name |-> nameMatch.name]
             ELSE AnchorScan(ls, i + 1, seen \cup {nameMatch.name})

\* the link scan of verify (lines 227-232): the map links
Links(ls) ==
    {hrefRegexp(ls[k], 1).name : k \in {x \in 1..Len(ls) : hrefRegexp(ls[x], 1).ok}}

NoError == [kind |-> "nil"]

\* verify: the errors it can return.  The loop of lines 235-241 ranges over
\* a map, whose iteration order Go leaves unspecified: any link without an
\* anchor can be the one reported.
verify(ls) ==
    LET scan == AnchorScan(ls, 1, {})
    IN  IF scan.dup THEN {[kind |-> "duplicate", name |-> scan.name]}
        ELSE LET undefined == Links(ls) \ scan.names
             IN  IF undefined = {} THEN {NoError}
                 ELSE {[kind |-> "undefined", name |-> n] : n \in undefined}

\* ------------------------------------------------------------------------
\* Input documents
\* ------------------------------------------------------------------------

\* the longest document of Spec, in lines
MaxLines == 3

\* the longest document of SpecOutline, in lines
MaxHeadings == 4

\* the deepest heading of SpecOutline
MaxDepth == 3

\* the sequences over S of length at most n
SeqsUpTo(S, n) == UNION {[1..k -> S] : k \in 0..n}

\* the lines the documents of Spec are made of
LinePool ==
    {\* # ab: a heading of depth 1
     <<"#", " ", "a", "b">>,
     \* ## Ab: a heading of depth 2 whose text is that of the first in another case
     <<"#", "#", " ", "A", "b">>,
     \* ### ba: a heading of depth 3
     <<"#", "#", "#", " ", "b", "a">>,
     \* [a]: x: a target definition
     <<"[", "a", "]", ":", " ", "x">>,
     \* [sec1]: x: a target definition named like the anchor of the first heading
     <<"[", "s", "e", "c", "1", "]", ":", " ", "x">>,
     \* [a] [a] [b] : three references, two of them to the same identifier
     <<"[", "a", "]", " ", "[", "a", "]", " ", "[", "b", "]", " ">>,
     \* [a][b] [c]: adjacent references and a reference that ends the line
     <<"[", "a", "]", "[", "b", "]", " ", "[", "c", "]">>,
     \* [sec a] [sec a].: the same section reference twice
     <<"[", "s", "e", "c", " ", "a", "]", " ", "[", "s", "e", "c", " ", "a", "]", ".">>,
     \* [sec  a]: a section reference written with two spaces
     <<"[", "s", "e", "c", " ", " ", "a", "]">>,
     \* [sec ab]: a section reference that spells a heading text in full
     <<"[", "s", "e", "c", " ", "a", "b", "]">>,
     \* <a name="a"></a><a name="a"></a>: two anchor markers on one line
     <<"<", "a", " ", "n", "a", "m", "e", "=", "\"", "a", "\"", ">", "<", "/", "a", ">", "<", "a", " ", "n", "a", "m", "e", "=", "\"", "a", "\"", ">", "<", "/", "a", ">">>,
     \* x: plain text
     <<"x">>}

Documents == SeqsUpTo(LinePool, MaxLines)

\* a heading line of depth d with title "a"
HeadingLine(d) == [k \in 1..d |-> "#"] \o <<" ", "a">>

\* the lines the documents of SpecOutline are made of: a heading of every
\* depth, plain text, and marker characters that no white space follows
OutlinePool ==
    {HeadingLine(d) : d \in 1..MaxDepth} \cup {<<"x">>, <<"#", "a">>}

Outlines == SeqsUpTo(OutlinePool, MaxHeadings)

\* the lines the documents of SpecRefs are made of
RefPool ==
    {\* [a]: x: a target definition
     <<"[", "a", "]", ":", " ", "x">>,
     \* [a] x: a reference to it that a character follows
     <<"[", "a", "]", " ", "x">>,
     \* x [a]: a reference to it that ends the line
     <<"x", " ", "[", "a", "]">>,
     \* [A] x: a reference that differs from it in case only
     <<"[", "A", "]", " ", "x">>,
     \* [b] x: a reference to an identifier that has no definition
     <<"[", "b", "]", " ", "x">>,
     \* [a]: [a] x: a target definition with a reference to itself on its line
     <<"[", "a", "]", ":", " ", "[", "a", "]", " ", "x">>,
     \* <a name="a"></a><a name="b"></a>: two anchor markers of different names on one line
     <<"<", "a", " ", "n", "a", "m", "e", "=", "\"", "a", "\"", ">", "<", "/", "a", ">", "<", "a", " ", "n", "a", "m", "e", "=", "\"", "b", "\"", ">", "<", "/", "a", ">">>,
     \* [sec a]: a section reference
     <<"[", "s", "e", "c", " ", "a", "]">>}

RefDocuments == SeqsUpTo(RefPool, MaxLines)

\* the longest run of headings of one depth in a document of SpecNumbers
MaxRun == 11

\* the deepest heading of SpecNumbers
DeepDepth == 5

\* n copies of the line s
Repeat(s, n) == [k \in 1..n |-> s]

\* the lengths of the runs of headings: none, one, and two lengths that
\* take a counter to two digits
RunLengths == {0, 1, MaxRun - 1, MaxRun}

\* the documents of SpecNumbers: runs of headings of depth 1 and of depth 2
\* in turn, and short outlines of headings of every depth up to DeepDepth
NumberDocuments ==
    {Repeat(HeadingLine(1), a) \o Repeat(HeadingLine(2), b)
        \o Repeat(HeadingLine(1), c) \o Repeat(HeadingLine(2), d) :
            a \in RunLengths, b \in RunLengths, c \in RunLengths, d \in RunLengths}
    \cup SeqsUpTo({HeadingLine(d) : d \in 1..DeepDepth}, MaxLines)

\* ------------------------------------------------------------------------
\* The run of main (lines 30-64)
\* ------------------------------------------------------------------------

VARIABLES
    input,          \* the lines read from standard input
    lines,          \* main's variable lines
    prev,           \* the value of lines that the last pass was given
    pc,             \* the statement of main that runs next
    exitCode,       \* the global exitCode
    err,            \* the error verify returned
    output,         \* the lines written to standard output
    pos,            \* passMkHeads: the position of its loop in lines
    newLines,       \* passMkHeads: newLines
    sectionNumbers, \* passMkHeads: sectionNumbers
    prevLevel,      \* passMkHeads: prevLevel
    warnings,       \* passMkHeads: the gap warnings written to stderr
    issued          \* passMkHeads: the section numbers built so far

vars == <<input, lines, prev, pc, exitCode, err, output, pos, newLines,
          sectionNumbers, prevLevel, warnings, issued>>

mkHeadsVars == <<pos, newLines, sectionNumbers, prevLevel, warnings, issued>>

\* the state after the input is read (line 44), for the document doc
Start(doc) ==
    /\ input = doc
    /\ lines = doc
    /\ prev = doc
    /\ pc = "passMkExterns"
    /\ exitCode = 0
    /\ err = NoError
    /\ output = <<>>
    /\ pos = 1
    /\ newLines = <<>>
    /\ sectionNumbers = <<>>
    /\ prevLevel = 0
    /\ warnings = 0
    /\ issued = <<>>

Init == \E doc \in Documents : Start(doc)

InitOutline == \E doc \in Outlines : Start(doc)

InitRefs == \E doc \in RefDocuments : Start(doc)

InitNumbers == \E doc \in NumberDocuments : Start(doc)

\* line 46
MkExterns ==
    /\ pc = "passMkExterns"
    /\ lines' = passMkExterns(lines)
    /\ prev' = lines
    /\ pc' = "passMkHeads"
    /\ UNCHANGED <<input, exitCode, err, output, mkHeadsVars>>

\* line 47, one iteration of the loop of passMkHeads
MkHeadsStep ==
    /\ pc = "passMkHeads"
    /\ pos <= Len(lines)
    /\ LET st == MkHeadsBody([newLines |-> newLines,
                              sectionNumbers |-> sectionNumbers,
                              prevLevel |-> prevLevel,
                              warnings |-> warnings,
                              issued |-> issued], lines[pos])
       IN  /\ newLines' = st.newLines
           /\ sectionNumbers' = st.sectionNumbers
           /\ prevLevel' = st.prevLevel
           /\ warnings' = st.warnings
           /\ issued' = st.issued
    /\ pos' = pos + 1
    /\ UNCHANGED <<input, lines, prev, pc, exitCode, err, output>>

\* line 47, the return of passMkHeads
MkHeadsReturn ==
    /\ pc = "passMkHeads"
    /\ pos > Len(lines)
    /\ lines' = newLines
    /\ prev' = lines
    /\ pc' = "passLinkExterns"
    /\ UNCHANGED <<input, exitCode, err, output, mkHeadsVars>>

\* line 48
LinkExterns ==
    /\ pc = "passLinkExterns"
    /\ lines' = passLinkExterns(lines)
    /\ prev' = lines
    /\ pc' = "passLinkHeads"
    /\ UNCHANGED <<input, exitCode, err, output, mkHeadsVars>>

\* line 49
LinkHeads ==
    /\ pc = "passLinkHeads"
    /\ LET r == passLinkHeads(lines, exitCode)
       IN  /\ lines' = r.lines
           /\ exitCode' = r.exitCode
    /\ prev' = lines
    /\ pc' = "verify"
    /\ UNCHANGED <<input, err, output, mkHeadsVars>>

\* lines 50-54 with the exit code assigned from the outcome of verify
\* alone
VerifyAssignsExitCode ==
    /\ pc = "verify"
    /\ \E e \in verify(lines) :
          /\ err' = e
          /\ exitCode' = IF e = NoError THEN 0 ELSE 1
    /\ pc' = "write"
    /\ UNCHANGED <<input, lines, prev, output, mkHeadsVars>>

\* lines 50-54
Verify ==
    /\ pc = "verify"
    /\ \E e \in verify(lines) :
          /\ err' = e
          /\ exitCode' = IF e = NoError THEN exitCode ELSE 1
    /\ pc' = "write"
    /\ UNCHANGED <<input, lines, prev, output, mkHeadsVars>>

\* lines 56-63 with nothing written once the run is marked errored
WriteUnlessErrored ==
    /\ pc = "write"
    /\ output' = IF exitCode = 0 THEN lines ELSE <<>>
    /\ pc' = "exit"
    /\ UNCHANGED <<input, lines, prev, exitCode, err, mkHeadsVars>>

\* lines 56-63
Write ==
    /\ pc = "write"
    /\ output' = lines
    /\ pc' = "exit"
    /\ UNCHANGED <<input, lines, prev, exitCode, err, mkHeadsVars>>

Next ==
    \/ MkExterns
    \/ MkHeadsStep
    \/ MkHeadsReturn
    \/ LinkExterns
    \/ LinkHeads
    \/ Verify
    \/ Write

Spec == Init /\ [][Next]_vars

SpecOutline == InitOutline /\ [][Next]_vars

SpecRefs == InitRefs /\ [][Next]_vars

SpecNumbers == InitNumbers /\ [][Next]_vars

\* ------------------------------------------------------------------------
\* Vocabulary of the properties
\* ------------------------------------------------------------------------

\* the run is past verify
Verified == pc \in {"write", "exit"}

\* the number of occurrences of sub in s, counted left to right without
\* overlap
RECURSIVE Count(_, _, _)
Count(s, i, sub) ==
    IF i > Len(s) THEN 0
    ELSE IF HasPrefixAt(s, i, sub) THEN 1 + Count(s, i + Len(sub), sub)
    ELSE Count(s, i + 1, sub)

\* the names of all the anchor markers of the line s from position i on
RECURSIVE AnchorNames(_, _)
AnchorNames(s, i) ==
    LET m == anchorRegexp(s, i)
    IN  IF m.ok THEN <<m.name>> \o AnchorNames(s, m.end) ELSE <<>>

\* the destinations of all the hyperlinks of the line s from position i on
RECURSIVE HrefNames(_, _)
HrefNames(s, i) ==
    LET m == hrefRegexp(s, i)
    IN  IF m.ok THEN <<m.name>> \o HrefNames(s, m.end) ELSE <<>>

\* the number of anchor markers named name in the lines ls
RECURSIVE AnchorCount(_, _)
AnchorCount(ls, name) ==
    IF Len(ls) = 0 THEN 0
    ELSE Cardinality({k \in DOMAIN AnchorNames(Head(ls), 1) :
                         AnchorNames(Head(ls), 1)[k] = name})
         + AnchorCount(Tail(ls), name)

\* all the hyperlink destinations of the lines ls
AllHrefs(ls) == UNION {Range(HrefNames(ls[k], 1)) : k \in 1..Len(ls)}

\* all the anchor names of the lines ls
AllAnchors(ls) == UNION {Range(AnchorNames(ls[k], 1)) : k \in 1..Len(ls)}

\* ------------------------------------------------------------------------
\* C1
\* ------------------------------------------------------------------------

\* C1: when verify reports no error, every hyperlink destination occurring
\* anywhere in the lines, a second or later link of a line included, is the
\* name of exactly one anchor marker of the lines.
C1_VerifiedLinksResolve ==
    (Verified /\ err = NoError) =>
        \A d \in AllHrefs(lines) : AnchorCount(lines, d) = 1

\* ------------------------------------------------------------------------
\* C10
\* ------------------------------------------------------------------------

\* C10: whenever some anchor name is carried by two or more anchor markers
\* of the lines, on different lines or on the same line, verify returns the
\* duplicate-anchor error naming a colliding anchor and the exit status is
\* not zero.
C10_DuplicateReported ==
    (Verified /\ \E n \in AllAnchors(lines) : AnchorCount(lines, n) >= 2) =>
        /\ err.kind = "duplicate"
        /\ AnchorCount(lines, err.name) >= 2
        /\ exitCode # 0

\* ------------------------------------------------------------------------
\* C7
\* ------------------------------------------------------------------------

\* the line s from position i on with every [identifier] that no colon
\* follows wrapped into a link to #identifier, wherever it stands
RECURSIVE WrapReferences(_, _)
WrapReferences(s, i) ==
    IF i > Len(s) THEN <<>>
    ELSE LET j == RunEnd(s, i + 1, WordChars)
             ref == SubSeq(s, i + 1, j - 1)
         IN  IF /\ s[i] = "["
                /\ j > i + 1
                /\ j <= Len(s)
                /\ s[j] = "]"
                /\ (j = Len(s) \/ s[j + 1] # ":")
             THEN Bracket(HrefLink(ref, ref)) \o WrapReferences(s, j + 1)
             ELSE <<s[i]>> \o WrapReferences(s, i + 1)

\* C7: passLinkExterns rewrites every [identifier] that no colon follows
\* into [<a href="#identifier">identifier</a>], at the end of a line and
\* next to another one included, each occurrence once; everything else,
\* section references included, stays as it was.
C7_EveryReferenceLinked ==
    pc = "passLinkHeads" =>
        /\ Len(lines) = Len(prev)
        /\ \A k \in 1..Len(prev) : lines[k] = WrapReferences(prev[k], 1)

\* ------------------------------------------------------------------------
\* C2 and C3
\* ------------------------------------------------------------------------

\* the positions in ls of the numbered heading lines that are acceptable
\* matches of the section reference acronym: headings whose case-folded
\* text the case-folded acronym becomes by insertions alone
AcceptableHeadings(ls, acronym) ==
    {j \in 1..Len(ls) :
        /\ numberedHeaderRe(ls[j]).ok
        /\ InsertionOnly(ToLower(acronym),
                         {ToLower(numberedHeaderRe(ls[j]).text)}) # {}}

\* the section references of the line s
SectionRefs(s) == Range(sectionRefRegexp(s, 1))

\* C2: a section reference with two or more acceptable headings, headings
\* of equal case-folded text included, is left as it was and the run is
\* marked errored.
C2_TiesNeverLinked ==
    pc = "verify" =>
        \A k \in 1..Len(prev) : \A m \in SectionRefs(prev[k]) :
            Cardinality(AcceptableHeadings(prev, m.acronym)) >= 2 =>
                /\ Count(lines[k], 1, m.whole) = Count(prev[k], 1, m.whole)
                /\ exitCode = 1

\* the section number of the numbered heading line s
HeadingNumber(s) == TrimSuffix(numberedHeaderRe(s).number, <<".">>)

\* the link that resolves a section reference to the numbered heading
\* line s
SectionLink(s) ==
    Bracket(HrefLink(SecWord \o ReplaceAll(HeadingNumber(s), <<".">>, <<"_">>),
                     SecWord \o <<" ">> \o HeadingNumber(s)))

\* C3: a section reference with exactly one acceptable heading is replaced,
\* at every occurrence on its line, by the link to that heading, and the
\* resolution leaves the exit status as it was.
C3_UniqueMatchLinked ==
    pc = "verify" =>
        /\ \A k \in 1..Len(prev) : \A m \in SectionRefs(prev[k]) :
              LET hs == AcceptableHeadings(prev, m.acronym)
              IN  Cardinality(hs) = 1 =>
                     LET link == SectionLink(prev[CHOOSE j \in hs : TRUE])
                     IN  /\ Count(lines[k], 1, m.whole) = 0
                         /\ Count(lines[k], 1, link) >= Count(prev[k], 1, m.whole)
        /\ (\A k \in 1..Len(prev) : \A m \in SectionRefs(prev[k]) :
               Cardinality(AcceptableHeadings(prev, m.acronym)) = 1)
             => exitCode = 0

\* ------------------------------------------------------------------------
\* Section numbers as numbers
\* ------------------------------------------------------------------------

\* the pieces of s between the occurrences of the character c
RECURSIVE SplitOn(_, _)
SplitOn(s, c) ==
    LET e == FindChar(s, 1, c)
    IN  IF e > Len(s) THEN <<s>>
        ELSE <<SubSeq(s, 1, e - 1)>> \o SplitOn(SubSeq(s, e + 1, Len(s)), c)

\* the number a string of decimal digits denotes
RECURSIVE Atoi(_)
Atoi(s) ==
    IF Len(s) = 0 THEN 0
    ELSE 10 * Atoi(SubSeq(s, 1, Len(s) - 1))
         + (CHOOSE n \in 0..9 : DigitSeq[n + 1] = s[Len(s)])

\* the parts of the section number s, sep standing between them
NumberParts(s, sep) ==
    [k \in DOMAIN SplitOn(s, sep) |-> Atoi(SplitOn(s, sep)[k])]

\* the count of level k in the vector sectionNumbers, zero where the slice
\* has not grown to k yet
Counter(sn, k) == IF k <= Len(sn) THEN sn[k] ELSE 0

\* the depths of the heading lines of ls, in order
RECURSIVE HeadingDepths(_)
HeadingDepths(ls) ==
    IF Len(ls) = 0 THEN <<>>
    ELSE (IF headerRegexp(Head(ls)).ok
          THEN <<Len(headerRegexp(Head(ls)).hashes)>> ELSE <<>>)
         \o HeadingDepths(Tail(ls))

\* the names of the anchor lines that stand before the numbered heading
\* lines of ls, in order
RECURSIVE HeadingAnchors(_, _)
HeadingAnchors(ls, k) ==
    IF k > Len(ls) THEN <<>>
    ELSE (IF k > 1 /\ numberedHeaderRe(ls[k]).ok /\ anchorRegexp(ls[k - 1], 1).ok
          THEN <<anchorRegexp(ls[k - 1], 1).name>> ELSE <<>>)
         \o HeadingAnchors(ls, k + 1)

\* passMkHeads has returned: prev holds the lines it was given, lines the
\* lines it returned, issued the section numbers it built
Numbered == pc = "passLinkExterns"

\* ------------------------------------------------------------------------
\* C4
\* ------------------------------------------------------------------------

ValidOutline(ds) ==
    /\ Len(ds) > 0 => ds[1] = 1
    /\ \A k \in 2..Len(ds) : ds[k] <= ds[k - 1] + 1

\* a is smaller than b part by part, a proper prefix being smaller
LexLess(a, b) ==
    \E k \in 1..(Len(a) + 1) :
        /\ \A j \in 1..(k - 1) : j <= Len(b) /\ a[j] = b[j]
        /\ k <= Len(b)
        /\ (k = Len(a) + 1 \/ a[k] < b[k])

\* C5: over a valid outline the section numbers are strictly increasing in
\* document order, part by part, and the first heading of depth d + 1 after
\* a heading of depth d has 1 as its last part.
C5_NumbersIncrease ==
    (Numbered /\ ValidOutline(HeadingDepths(prev))) =>
        LET ds == HeadingDepths(prev)
            ns == [k \in DOMAIN issued |-> NumberParts(issued[k], ".")]
        IN  /\ Len(issued) = Len(ds)
            /\ \A k \in 1..(Len(ns) - 1) : LexLess(ns[k], ns[k + 1])
            /\ \A a \in 1..Len(ds) : \A b \in (a + 1)..Len(ds) :
                  (/\ ds[b] = ds[a] + 1
                   /\ \A c \in (a + 1)..(b - 1) : ds[c] # ds[b])
                  => ns[b][Len(ns[b])] = 1

\* a valid outline that goes down, up and down again
C5_Witness ==
    /\ Numbered
    /\ ValidOutline(HeadingDepths(prev))
    /\ HeadingDepths(prev) = <<1, 2, 1, 2>>
    /\ issued = <<<<"1">>, <<"1", ".", "1">>, <<"2">>, <<"2", ".", "1">>>>

\* ------------------------------------------------------------------------
\* C6
\* ------------------------------------------------------------------------

\* the headings that are more than one level deeper than the heading
\* before them, as positions in the sequence of depths ds
Gaps(ds) == {b \in 2..Len(ds) : ds[b] > ds[b - 1] + 1}

\* C6 as claimed: the number and the anchor name of a heading more than one
\* level deeper than the heading before it have no part for a skipped
\* level.
C6_GapCollapsed ==
    Numbered =>
        LET ds == HeadingDepths(prev)
            as == HeadingAnchors(lines, 1)
        IN  \A b \in Gaps(ds) :
               /\ Len(SplitOn(issued[b], ".")) = ds[b - 1] + 1
               /\ Len(SplitOn(as[b], "_")) = ds[b - 1] + 1

\* C6 as amended: such a heading has one part for every level 1..d in its
\* number and in its anchor name, and the part of every skipped level is 0.
C6_GapZero ==
    Numbered =>
        LET ds == HeadingDepths(prev)
            as == HeadingAnchors(lines, 1)
        IN  /\ Len(as) = Len(ds)
            /\ \A b \in Gaps(ds) :
                  LET parts == NumberParts(issued[b], ".")
                  IN  /\ Len(parts) = ds[b]
                      /\ \A k \in (ds[b - 1] + 1)..(ds[b] - 1) : parts[k] = 0
                      /\ parts[ds[b]] = 1
                      /\ HasPrefixAt(as[b], 1, SecWord)
                      /\ NumberParts(SubSeq(as[b], Len(SecWord) + 1, Len(as[b])), "_")
                           = parts

\* a heading of depth 3 follows a heading of depth 1
C6_Witness ==
    /\ Numbered
    /\ Gaps(HeadingDepths(prev)) # {}
    /\ \E b \in DOMAIN issued : issued[b] = <<"1", ".", "0", ".", "1">>

\* ------------------------------------------------------------------------
\* C8
\* ------------------------------------------------------------------------

IsDefinition(s) == extLinkRegexp(s).ok

IsHeading(s) == headerRegexp(s).ok

\* the lines of ls up to k that get an anchor line
Targets(ls, k) == {j \in 1..k : IsDefinition(ls[j]) \/ IsHeading(ls[j])}

Candidates(ls) ==
    {ToLower(numberedHeaderRe(ls[j]).text) :
        j \in {x \in 1..Len(ls) : numberedHeaderRe(ls[x]).ok}}

\* the resolver meets, in the lines ls, a section reference with no
\* acceptable match or with more than one
ResolverError(ls) ==
    \E k \in 1..Len(ls) : \E m \in SectionRefs(ls[k]) :
        Cardinality(InsertionOnly(ToLower(m.acronym), Candidates(ls))) # 1

\* C9: at the end of the run the exit status is zero exactly when verify
\* returned no error and the resolver met no section reference with zero or
\* several acceptable matches, gap warnings or not; an exit status that is
\* not zero stays so.
C9_ExitStatus ==
    /\ [](Verified => (exitCode = 0 <=> (err = NoError /\ ~ResolverError(prev))))
    /\ [][exitCode # 0 => exitCode' # 0]_vars

\* a run that the resolver marked errored and verify found nothing in
C9_Witness ==
    /\ pc = "exit"
    /\ err = NoError
    /\ ResolverError(prev)
    /\ exitCode = 1

\* a run with a gap warning and nothing else ends with exit status zero
C9_WitnessGap ==
    /\ pc = "exit"
    /\ warnings > 0
    /\ exitCode = 0

\* ------------------------------------------------------------------------
\* C11
\* ------------------------------------------------------------------------

\* the section reference m is written with the single space the resolver
\* searches its line for
SingleSpaced(m) == m.whole = Bracket(SecWord \o <<" ">> \o m.acronym)

\* C11: a section reference with no acceptable heading, for want of any
\* heading or because it spells a heading text in full, stays in its line
\* as it was written and the run is marked errored; the resolver goes on
\* all the same: no line is lost, and a reference of the same or a later
\* line that has exactly one acceptable heading is still replaced by its
\* link.
C11_NoMatchLeftAndErrored ==
    pc = "verify" =>
        /\ Len(lines) = Len(prev)
        /\ \A k \in 1..Len(prev) : \A m \in SectionRefs(prev[k]) :
              AcceptableHeadings(prev, m.acronym) = {} =>
                 /\ Count(lines[k], 1, m.whole) = Count(prev[k], 1, m.whole)
                 /\ exitCode = 1
                 /\ \A j \in k..Len(prev) : \A n \in SectionRefs(prev[j]) :
                       (/\ Cardinality(AcceptableHeadings(prev, n.acronym)) = 1
                        /\ SingleSpaced(n))
                         => Count(lines[j], 1, n.whole) = 0

\* a reference that spells a heading text in full is left as it was, the
\* run is marked errored, and a reference of a later line is resolved
C11_Witness ==
    /\ pc = "verify"
    /\ exitCode = 1
    /\ \E k \in 1..Len(prev) : \E m \in SectionRefs(prev[k]) :
          /\ AcceptableHeadings(prev, m.acronym) = {}
          /\ ToLower(m.acronym) \in Candidates(prev)
          /\ lines[k] = prev[k]
          /\ \E j \in (k + 1)..Len(prev) : \E n \in SectionRefs(prev[j]) :
                /\ Cardinality(AcceptableHeadings(prev, n.acronym)) = 1
                /\ Count(lines[j], 1, n.whole) = 0

\* a reference in a document without any heading is left as it was and the
\* run is marked errored
C11_WitnessNoHeading ==
    /\ pc = "verify"
    /\ exitCode = 1
    /\ Candidates(prev) = {}
    /\ \E k \in 1..Len(prev) :
          /\ SectionRefs(prev[k]) # {}
          /\ lines[k] = prev[k]

\* ------------------------------------------------------------------------
\* C12
\* ------------------------------------------------------------------------

\* the identifiers of the references of the line s from position i on:
\* every [identifier] that no colon follows, wherever it stands
RECURSIVE ReferenceNames(_, _)
ReferenceNames(s, i) ==
    IF i > Len(s) THEN {}
    ELSE LET j == RunEnd(s, i + 1, WordChars)
             ref == SubSeq(s, i + 1, j - 1)
         IN  IF /\ s[i] = "["
                /\ j > i + 1
                /\ j <= Len(s)
                /\ s[j] = "]"
                /\ (j = Len(s) \/ s[j + 1] # ":")
             THEN {ref} \cup ReferenceNames(s, j + 1)
             ELSE ReferenceNames(s, i + 1)

\* the positions in ls of the definition lines of the identifier f
DefinitionsOf(ls, f) ==
    {k \in 1..Len(ls) : IsDefinition(ls[k]) /\ extLinkRegexp(ls[k]).ref = f}

\* the identifiers the lines ls define
Defined(ls) == {extLinkRegexp(ls[k]).ref : k \in {x \in 1..Len(ls) : IsDefinition(ls[x])}}

\* the identifiers the lines ls refer to
Referenced(ls) == UNION {ReferenceNames(ls[k], 1) : k \in 1..Len(ls)}

\* the position in the output of line k of the input: every target line up
\* to it has an anchor line before it
Image(k) == k + Cardinality(Targets(input, k))

\* verify has exactly the failure of the dangling destination g to report
OnlyFailure(g) ==
    /\ AllHrefs(lines) \ AllAnchors(lines) \subseteq {g}
    /\ \A n \in AllAnchors(lines) : AnchorCount(lines, n) = 1

\* C12: when the input defines the identifier f on exactly one line and
\* refers to it on another, the output has the anchor line of f immediately
\* before the definition line, every line that refers to f carries the link
\* to #f in place of the reference, and verify reports neither a dangling
\* link nor a duplicate for f; a reference to an identifier g without a
\* definition that differs from f in letter case only gets no anchor, the
\* run ends with an error, and the error is the dangling link g when there
\* is nothing else for verify to report.
C12_RoundTrip ==
    Verified =>
        \A f \in Defined(input) :
            (/\ Cardinality(DefinitionsOf(input, f)) = 1
             /\ \E j \in 1..Len(input) :
                   /\ j \notin DefinitionsOf(input, f)
                   /\ f \in ReferenceNames(input[j], 1))
              =>
                /\ \A k \in DefinitionsOf(input, f) :
                      lines[Image(k) - 1] = AnchorLine(f)
                /\ \A j \in 1..Len(input) :
                      f \in ReferenceNames(input[j], 1) =>
                         /\ Count(lines[Image(j)], 1, Bracket(HrefLink(f, f))) >= 1
                         /\ f \notin ReferenceNames(lines[Image(j)], 1)
                /\ err \notin {[kind |-> "undefined", name |-> f],
                               [kind |-> "duplicate", name |-> f]}
                /\ \A g \in Referenced(input) \ Defined(input) :
                      (g # f /\ ToLower(g) = ToLower(f)) =>
                         /\ g \notin AllAnchors(lines)
                         /\ err # NoError
                         /\ OnlyFailure(g) => err = [kind |-> "undefined", name |-> g]

\* ------------------------------------------------------------------------
\* C13
\* ------------------------------------------------------------------------

\* the section numbers of the numbered heading lines of ls, in order
RECURSIVE HeadingNumbers(_)
HeadingNumbers(ls) ==
    IF Len(ls) = 0 THEN <<>>
    ELSE (IF numberedHeaderRe(Head(ls)).ok
          THEN <<HeadingNumber(Head(ls))>> ELSE <<>>)
         \o HeadingNumbers(Tail(ls))

\* no two elements of the sequence s are equal
Distinct(s) == \A a \in DOMAIN s : \A b \in DOMAIN s : a < b => s[a] # s[b]

\* C13: when passMkHeads has returned, every heading line has got a number
\* and an anchor line, no two heading lines carry the same section number
\* and no two of their anchor lines the same name, whatever the depths of
\* the headings and however many digits the counters have; and on a
\* document of headings alone verify does not return the duplicate-anchor
\* error.
C13_NumbersAndAnchorsUnique ==
    /\ Numbered =>
          /\ Len(HeadingNumbers(lines)) = Len(HeadingDepths(prev))
          /\ Len(HeadingAnchors(lines, 1)) = Len(HeadingDepths(prev))
          /\ HeadingNumbers(lines) = issued
          /\ Distinct(HeadingNumbers(lines))
          /\ Distinct(HeadingAnchors(lines, 1))
    /\ Verified => err.kind # "duplicate"

\* the numbers 1.11 and 11.1, which differ in the place of the dot only,
\* are both issued, with different anchors
C13_Witness ==
    /\ Numbered
    /\ \E a \in DOMAIN issued : \E b \in DOMAIN issued :
          /\ issued[a] = <<"1", ".", "1", "1">>
          /\ issued[b] = <<"1", "1", ".", "1">>
          /\ HeadingAnchors(lines, 1)[a] = <<"s", "e", "c", "1", "_", "1", "1">>
          /\ HeadingAnchors(lines, 1)[b] = <<"s", "e", "c", "1", "1", "_", "1">>

\* a heading of depth 5 is numbered
C13_WitnessDeep ==
    /\ Numbered
    /\ \E a \in DOMAIN issued :
          /\ HeadingDepths(prev)[a] >= 5
          /\ Len(NumberParts(issued[a], ".")) >= 5

\* ------------------------------------------------------------------------
\* C14
\* ------------------------------------------------------------------------

\* the lines ls have neither a heading line nor a definition line
NoTargets(ls) == \A k \in 1..Len(ls) : ~IsHeading(ls[k]) /\ ~IsDefinition(ls[k])

\* C14: for an input without heading lines and without definition lines
\* the lines written are the lines read.
C14_NoTargetsNoChange ==
    (pc = "exit" /\ NoTargets(input)) => output = input

\* C14 as amended: for an input without heading lines, without definition
\* lines and without references, the lines written are the lines read.
C14_NoTargetsNoReferencesNoChange ==
    (pc = "exit" /\ NoTargets(input) /\ Referenced(input) = {}) => output = input

\* an input of a section reference and of anchor markup, which has no
\* heading, definition or reference, is written as it was read
C14_Witness ==
    /\ pc = "exit"
    /\ NoTargets(input)
    /\ Referenced(input) = {}
    /\ \E k \in 1..Len(input) : SectionRefs(input[k]) # {}
    /\ AllAnchors(input) # {}
    /\ output = input

\* ------------------------------------------------------------------------
\* C15
\* ------------------------------------------------------------------------

\* the positions in ls of the lines whose link verify collects and finds no
\* anchor for
DanglingLines(ls) ==
    {k \in 1..Len(ls) :
        /\ hrefRegexp(ls[k], 1).ok
        /\ hrefRegexp(ls[k], 1).name \notin AnchorScan(ls, 1, {}).names}

\* the first of them in document order
FirstDangling(ls) ==
    hrefRegexp(ls[CHOOSE k \in DanglingLines(ls) :
                      \A j \in DanglingLines(ls) : k <= j], 1).name

\* C15: a run has one outcome: when verify is called the lines leave it one
\* error to return, and a dangling-link error names the first dangling
\* destination in document order.
C15_OneOutcome ==
    /\ pc = "verify" => Cardinality(verify(lines)) = 1
    /\ (Verified /\ err.kind = "undefined") => err.name = FirstDangling(lines)

\* ------------------------------------------------------------------------
\* C16
\* ------------------------------------------------------------------------

\* C16: whatever verify returned and whether or not the resolver marked
\* the run errored, the lines written at the end of the run are the lines
\* passLinkHeads returned, all of them and in their order; verify leaves
\* the lines as they are.
C16_OutputIsResolverResult ==
    /\ [](pc = "exit" => output = passLinkHeads(prev, 0).lines)
    /\ [][pc = "verify" => lines' = lines]_vars

\* the lines are written after verify returned the duplicate-anchor error
C16_Witness ==
    /\ pc = "exit"
    /\ err.kind = "duplicate"
    /\ exitCode = 1
    /\ output # <<>>
    /\ output = lines

\* the lines are written after verify returned the dangling-link error
C16_WitnessDangling ==
    /\ pc = "exit"
    /\ err.kind = "undefined"
    /\ exitCode = 1
    /\ output # <<>>
    /\ output = lines

\* the lines are written after the resolver marked the run errored and
\* verify returned no error
C16_WitnessResolver ==
    /\ pc = "exit"
    /\ err = NoError
    /\ ResolverError(prev)
    /\ exitCode = 1
    /\ output # <<>>
    /\ output = lines

\* ------------------------------------------------------------------------
\* C17
\* ------------------------------------------------------------------------

\* the destination d is a forward reference in the lines ls: a line links
\* to d and a later line carries an anchor marker named d
ForwardReference(ls, d) ==
    \E k \in 1..Len(ls) : \E j \in (k + 1)..Len(ls) :
        /\ d \in Range(HrefNames(ls[k], 1))
        /\ d \in Range(AnchorNames(ls[j], 1))

\* C17: verify looks at the links only when the anchor scan has passed
\* over every line: the dangling-link error never names a destination
\* whose anchor stands on a later line than a link to it, and when the
\* anchor scan meets a duplicate the error returned is that duplicate and
\* no dangling link, wherever the links stand.
C17_AnchorsBeforeLinks ==
    Verified =>
        /\ err.kind = "undefined" => ~ForwardReference(lines, err.name)
        /\ AnchorScan(lines, 1, {}).dup =>
              err = [kind |-> "duplicate", name |-> AnchorScan(lines, 1, {}).name]

\* ------------------------------------------------------------------------
\* C18
\* ------------------------------------------------------------------------

\* C18: passLinkExterns leaves the opening of every definition line alone:
\* a line that begins with [identifier]: before the pass begins with the
\* same [identifier]: after it, also when the identifier is referred to
\* later on that line.
C18_DefinitionOpeningKept ==
    pc = "passLinkHeads" =>
        /\ Len(lines) = Len(prev)
        /\ \A k \in 1..Len(prev) :
              IsDefinition(prev[k]) =>
                 /\ IsDefinition(lines[k])
                 /\ extLinkRegexp(lines[k]).ref = extLinkRegexp(prev[k]).ref

\* ------------------------------------------------------------------------
\* C19
\* ------------------------------------------------------------------------

\* the number of hyperlinks of the line s whose destination is d
HrefCount(s, d) ==
    Cardinality({i \in DOMAIN HrefNames(s, 1) : HrefNames(s, 1)[i] = d})

\* the destinations of the hyperlinks that passLinkHeads put into line k
GeneratedBySectionRefs(k) ==
    {d \in Range(HrefNames(lines[k], 1)) :
        HrefCount(lines[k], d) > HrefCount(prev[k], d)}

\* the anchor name the resolver derives from the numbered heading line s
DerivedName(s) ==
    SecWord \o ReplaceAll(HeadingNumber(s), <<".">>, <<"_">>)

\* C19: when passLinkHeads has returned, the anchor name derived from every
\* numbered heading line is the name of the anchor line standing
\* immediately before it, and every hyperlink the pass generated leads to
\* the anchor of a heading that is an acceptable match of a section
\* reference of its line, so that its destination is the name of an anchor
\* of the lines.
C19_DerivedAnchorIsEmitted ==
    pc = "verify" =>
        /\ \A j \in 1..Len(lines) :
              numberedHeaderRe(lines[j]).ok =>
                 /\ j > 1
                 /\ lines[j - 1] = AnchorLine(DerivedName(lines[j]))
        /\ \A k \in 1..Len(lines) : \A d \in GeneratedBySectionRefs(k) :
              /\ d \in AllAnchors(lines)
              /\ \E m \in SectionRefs(prev[k]) :
                    \E j \in AcceptableHeadings(prev, m.acronym) :
                        /\ d = DerivedName(lines[j])
                        /\ lines[j - 1] = AnchorLine(d)

\* a section reference is resolved to a heading whose number has more than
\* one part
C19_Witness ==
    /\ pc = "verify"
    /\ \E k \in 1..Len(lines) : \E d \in GeneratedBySectionRefs(k) :
          /\ Count(d, 1, <<"_">>) >= 1
          /\ \E j \in 2..Len(lines) :
                /\ numberedHeaderRe(lines[j]).ok
                /\ lines[j - 1] = AnchorLine(d)

====
